---- MODULE Spec2Model ----
(***************************************************************************)
(* NTS-KE record codec, decode loop and key export of net/ntske/ntske.go.  *)
(*                                                                         *)
(* A client session: ExchangeTCP packs and writes the request, then Read   *)
(* decodes the peer's records from a bufio.Reader over the connection      *)
(* until an End record; the caller then runs ExportKeys.  The peer's byte  *)
(* stream is the packing of a short list of records; the transport hands   *)
(* it to the reader in chunks and may close before the whole stream has    *)
(* arrived.  The transport returns data and end-of-stream in separate      *)
(* reads and never returns an empty read without an error.                 *)
(***************************************************************************)
EXTENDS Integers, Sequences, FiniteSets, TLC

VARIABLES
    recs,      \* the records the peer packs (input)
    wire,      \* the bytes the transport delivers before end-of-stream
    chunks,    \* the pieces of wire the transport has still to return
    buf,       \* bufio.Reader: bytes buffered and not yet read
    pos,       \* number of bytes of wire the reader has handed out
    msg,       \* Read: var msg RecordHdr
    critical,  \* Read: var critical bool
    data,      \* the caller's *Data
    data0,     \* data as it was when ExchangeTCP was called
    pc,        \* position of the session
    err,       \* error value of the last return
    log,       \* headers Read has decoded, with the position of each
    sent,      \* bytes handed to conn.Write
    config,    \* the caller's *tls.Config: its NextProtos
    conn,      \* the *tls.Conn ConnectTCP returned
    proto,     \* ConnectionState().NegotiatedProtocol of the dialled connection
    remote,    \* conn.RemoteAddr().String() of the dialled connection
    records,   \* ExchangeMsg.Record
    packed,    \* the buffer ExchangeMsg.Pack returned
    pc2,       \* position of a second session that was handed the same config
    cfgWriter  \* the session that wrote config last, 0 for the caller

connVars == <<config, conn, proto, remote>>
msgVars == <<records, packed>>
concVars == <<pc2, cfgWriter>>

vars == <<recs, wire, chunks, buf, pos, msg, critical, data, data0, pc, err, log, sent,
          config, conn, proto, remote, records, packed, pc2, cfgWriter>>

----------------------------------------------------------------------------
(* Bounds *)

\* the most records handed to AddRecord before Pack
MaxMsg == 2

\* the longest Cookie a caller packs; a Server address may be one byte longer
MaxBody == 65536

MaxRecs == 2

----------------------------------------------------------------------------
(* Constants of the package *)

RecEom == 0
RecNextproto == 1
RecError == 2
RecWarning == 3
RecAead == 4
RecCookie == 5
RecServer == 6
RecPort == 7

AES_SIV_CMAC_256 == 15
DEFAULT_NTSKE_PORT == 4460
DEFAULT_NTP_PORT == 123

alpn == "ntske/1"
NTPv4 == 0

\* bufio.NewReader: the default buffer size of the reader
BufSize == 4096

\* ExportKeys: len := 32
KeyLen == 32

----------------------------------------------------------------------------
(* uint16 and byte helpers *)

Pow2(n) == 2 ^ n

\* n |= (1 << pos) on a uint16
setBit(n, p) == IF (n \div Pow2(p)) % 2 = 1 THEN n ELSE (n + Pow2(p)) % 65536

\* val := n & (1 << pos); return val > 0
hasBit(n, p) == (n \div Pow2(p)) % 2 = 1

\* msg.Type &^= (1 << 15)
clearBit15(n) == IF hasBit(n, 15) THEN n - Pow2(15) ELSE n

\* binary.BigEndian encoding of a uint16
PutU16(v) == <<(v \div 256) % 256, v % 256>>

\* binary.BigEndian decoding of two bytes
GetU16(b) == b[1] * 256 + b[2]

RECURSIVE PutU16s(_)
\* binary.Write of a []uint16
PutU16s(s) == IF s = <<>> THEN <<>> ELSE PutU16(Head(s)) \o PutU16s(Tail(s))

\* make([]byte, n)
Zeros(n) == [i \in 1..n |-> 0]

Min(a, b) == IF a < b THEN a ELSE b

Prefix(s, n) == SubSeq(s, 1, n)
Suffix(s, n) == SubSeq(s, n + 1, Len(s))

----------------------------------------------------------------------------
(* Record codec: pack *)

\* RecordHdr.pack: binary.Write of the two uint16 fields
HdrPack(type, bodylen) == PutU16(type) \o PutU16(bodylen)

\* packheader that sets the critical bit whatever c is
packheaderAlwaysCritical(t, c, bodylen) ==
    HdrPack(setBit(t, 15), bodylen % 65536)

packheader(t, c, bodylen) ==
    HdrPack(IF c THEN setBit(t, 15) ELSE t, bodylen % 65536)

packsimple(t, c, value) == packheader(t, c, Len(value)) \o value

NextProtoPack(n) ==
    LET value == PutU16(n.NextProto)
    IN  HdrPack(setBit(RecNextproto, 15), Len(value) % 65536) \o value

EndPack(e) == packheader(RecEom, TRUE, 0)

ServerPack(s) == packsimple(RecServer, s.Critical, s.Addr)

PortPack(p) == packsimple(RecPort, p.Critical, PutU16(p.Port))

CookiePack(c) == packsimple(RecCookie, FALSE, c.Cookie)

WarningPack(w) == packsimple(RecWarning, TRUE, PutU16(w.Code))

ErrorPack(e) == packsimple(RecError, TRUE, PutU16(e.Code))

AlgorithmPack(a) == packsimple(RecAead, TRUE, PutU16s(a.Algo))

\* a record of a peer that is not this encoder: any header, any payload
RawPack(r) ==
    HdrPack(IF r.Critical THEN setBit(r.Type, 15) ELSE r.Type, r.BodyLen) \o r.Payload

\* Record.pack: dispatch on the variant
pack(r) ==
    CASE r.kind = "NextProto" -> NextProtoPack(r)
      [] r.kind = "End"       -> EndPack(r)
      [] r.kind = "Server"    -> ServerPack(r)
      [] r.kind = "Port"      -> PortPack(r)
      [] r.kind = "Cookie"    -> CookiePack(r)
      [] r.kind = "Warning"   -> WarningPack(r)
      [] r.kind = "Error"     -> ErrorPack(r)
      [] r.kind = "Algorithm" -> AlgorithmPack(r)
      [] r.kind = "Raw"       -> RawPack(r)

RECURSIVE PackReversed(_)
\* Pack that puts each record in front of the ones packed before it
PackReversed(l) == IF l = <<>> THEN <<>> ELSE PackReversed(Tail(l)) \o pack(Head(l))

RECURSIVE Pack(_)
\* ExchangeMsg.Pack: the records' encodings in list order
Pack(m) == IF m = <<>> THEN <<>> ELSE pack(Head(m)) \o Pack(Tail(m))

\* ExchangeTCP: the request of the client
ClientMsg ==
    << [kind |-> "NextProto", NextProto |-> NTPv4],
       [kind |-> "Algorithm", Algo |-> <<AES_SIV_CMAC_256>>],
       [kind |-> "End"] >>

----------------------------------------------------------------------------
(* The reader: bufio.Reader.Read and io.ReadFull over the transport *)

\* bufio.Reader.Read(p) with len(p) = n: at most one read of the transport,
\* and only when nothing is buffered; n may come back short.
BufioRead(b, c, n) ==
    IF n = 0 THEN [got |-> <<>>, buf |-> b, chunks |-> c, err |-> "nil"]
    ELSE IF b # <<>> THEN
        LET k == Min(n, Len(b))
        IN  [got |-> Prefix(b, k), buf |-> Suffix(b, k), chunks |-> c, err |-> "nil"]
    ELSE IF c = <<>> THEN [got |-> <<>>, buf |-> b, chunks |-> c, err |-> "EOF"]
    ELSE
        LET room == IF n >= BufSize THEN n ELSE BufSize
            m    == Min(room, Len(Head(c)))
            in   == Prefix(Head(c), m)
            left == IF m = Len(Head(c)) THEN Tail(c)
                    ELSE <<Suffix(Head(c), m)>> \o Tail(c)
            k    == Min(n, m)
        IN  [got |-> Prefix(in, k), buf |-> Suffix(in, k), chunks |-> left, err |-> "nil"]

RECURSIVE ReadFull(_, _, _, _)
\* io.ReadFull, as binary.Read uses it: Read until n bytes are in, or fail
\* with EOF (nothing read) or ErrUnexpectedEOF (some bytes read).
ReadFull(b, c, n, acc) ==
    IF n = 0 THEN [got |-> acc, buf |-> b, chunks |-> c, err |-> "nil"]
    ELSE LET r == BufioRead(b, c, n)
         IN  IF r.err # "nil"
             THEN [got |-> acc, buf |-> r.buf, chunks |-> r.chunks,
                   err |-> IF acc = <<>> THEN "EOF" ELSE "ErrUnexpectedEOF"]
             ELSE ReadFull(r.buf, r.chunks, n - Len(r.got), acc \o r.got)

\* binary.Read(reader, binary.BigEndian, &x) for an x of n bytes
BinaryRead(b, c, n) == ReadFull(b, c, n, <<>>)

----------------------------------------------------------------------------
(* Inputs *)

HostAddr == <<72>>

\* the records a peer may send
Menu ==
    { [kind |-> "NextProto", NextProto |-> 0],
      [kind |-> "NextProto", NextProto |-> 1],
      [kind |-> "End"],
      [kind |-> "Server", Addr |-> <<65>>, Critical |-> FALSE],
      [kind |-> "Server", Addr |-> <<66, 67>>, Critical |-> TRUE],
      [kind |-> "Port", Port |-> 4123, Critical |-> FALSE],
      [kind |-> "Cookie", Cookie |-> <<170, 187>>],
      [kind |-> "Warning", Code |-> 1],
      [kind |-> "Error", Code |-> 1],
      [kind |-> "Algorithm", Algo |-> <<15>>],
      [kind |-> "Algorithm", Algo |-> <<15, 16>>],
      [kind |-> "Raw", Type |-> 9, Critical |-> TRUE, BodyLen |-> 2, Payload |-> <<1, 2>>],
      [kind |-> "Raw", Type |-> 9, Critical |-> TRUE, BodyLen |-> 0, Payload |-> <<>>],
      [kind |-> "Raw", Type |-> 9, Critical |-> FALSE, BodyLen |-> 2, Payload |-> <<1, 2>>],
      [kind |-> "Raw", Type |-> 7, Critical |-> FALSE, BodyLen |-> 4, Payload |-> <<0, 123, 0, 0>>],
      [kind |-> "Raw", Type |-> 3, Critical |-> FALSE, BodyLen |-> 2, Payload |-> <<0, 1>>] }

\* values of the RecordHdr a record embeds; pack never reads them
ZeroHdr == [Type |-> 0, BodyLen |-> 0]
StaleHdr == [Type |-> setBit(RecPort, 15), BodyLen |-> 9]

\* the records a caller may hand to AddRecord
EncMenu ==
    { [kind |-> "NextProto", Hdr |-> ZeroHdr, NextProto |-> 0],
      [kind |-> "NextProto", Hdr |-> StaleHdr, NextProto |-> 0],
      [kind |-> "End", Hdr |-> ZeroHdr],
      [kind |-> "Server", Hdr |-> StaleHdr, Addr |-> <<65>>, Critical |-> FALSE],
      [kind |-> "Server", Hdr |-> ZeroHdr, Addr |-> <<65>>, Critical |-> TRUE],
      [kind |-> "Port", Hdr |-> StaleHdr, Port |-> 123, Critical |-> FALSE],
      [kind |-> "Port", Hdr |-> ZeroHdr, Port |-> 4123, Critical |-> TRUE],
      [kind |-> "Cookie", Hdr |-> StaleHdr, Cookie |-> <<170, 187>>],
      [kind |-> "Warning", Hdr |-> ZeroHdr, Code |-> 1],
      [kind |-> "Error", Hdr |-> ZeroHdr, Code |-> 1],
      [kind |-> "Algorithm", Hdr |-> ZeroHdr, Algo |-> <<15>>],
      [kind |-> "Algorithm", Hdr |-> StaleHdr, Algo |-> <<>>],
      [kind |-> "Cookie", Hdr |-> ZeroHdr, Cookie |-> Zeros(MaxBody)],
      [kind |-> "Server", Hdr |-> ZeroHdr, Addr |-> Zeros(MaxBody + 1), Critical |-> FALSE] }

RecLists == UNION { [1..n -> Menu] : n \in 0..MaxRecs }

\* DefaultData with the port of the key exchange for the port of NTP
DefaultDataKePort(host) ==
    [C2sKey |-> <<>>, S2cKey |-> <<>>, Server |-> host,
     Port |-> DEFAULT_NTSKE_PORT, Cookie |-> <<>>, Algo |-> 0]

\* var data Data; data.Server = the remote host; data.Port = DEFAULT_NTP_PORT
DefaultData(host) ==
    [C2sKey |-> <<>>, S2cKey |-> <<>>, Server |-> host,
     Port |-> DEFAULT_NTP_PORT, Cookie |-> <<>>, Algo |-> 0]

\* Data as ConnectTCP returns it: the remote host and the default NTP port
ConnectData == DefaultData(HostAddr)

\* a mismatch test that lets every negotiated protocol pass
AlpnMismatchNever(p) == FALSE

\* state.NegotiatedProtocol != alpn
AlpnMismatch(p) == p # "ntske/1"

NonEmpty(s) == s # <<>>

\* var data Data, Data{}
EmptyData ==
    [C2sKey |-> <<>>, S2cKey |-> <<>>, Server |-> <<>>,
     Port |-> 0, Cookie |-> <<>>, Algo |-> 0]

RECURSIVE Itoa(_)
\* strconv.Itoa of a non-negative int, as ASCII digits
Itoa(n) == IF n < 10 THEN <<48 + n>> ELSE Itoa(n \div 10) \o <<48 + (n % 10)>>

\* the positions of ':' (58) in an address
Colons(a) == {i \in 1..Len(a) : a[i] = 58}

\* net.SplitHostPort, for addresses without brackets: split at the last ':'
SplitHostPort(a) ==
    IF Colons(a) = {}
    THEN [host |-> <<>>, port |-> <<>>, err |-> "missing port in address"]
    ELSE LET i == CHOOSE c \in Colons(a) : \A d \in Colons(a) : d <= c
         IN  IF Colons(Prefix(a, i - 1)) # {}
             THEN [host |-> <<>>, port |-> <<>>, err |-> "too many colons in address"]
             ELSE [host |-> Prefix(a, i - 1), port |-> Suffix(a, i), err |-> "nil"]

\* net.JoinHostPort, for hosts without ':'
JoinHostPort(host, port) == host \o <<58>> \o port

\* the hostport arguments of ConnectTCP: "n", "n:4460", "n:1:2"
HostPorts == { <<110>>, <<110, 58, 52, 52, 54, 48>>, <<110, 58, 49, 58, 50>> }

\* the NextProtos of the caller's config before ConnectTCP
CallerProtos == { <<>>, <<"h2">> }

\* the stream of a peer that packs rs, with End after it when eom: the bytes
\* that arrive (all of them when more, else the first s) and the reads of
\* the transport that deliver them (the first s bytes, then the rest)
Stream(rs, eom, more, s) ==
    LET full == Pack(IF eom THEN rs \o <<[kind |-> "End"]>> ELSE rs)
        cut  == Min(s, Len(full))
    IN  [recs |-> rs,
         wire |-> IF more THEN full ELSE Prefix(full, cut),
         chunks |-> SelectSeq(<<Prefix(full, cut),
                                IF more THEN Suffix(full, cut) ELSE <<>> >>,
                              NonEmpty)]

----------------------------------------------------------------------------
(* State machine *)

\* nothing has been dialled, read, written or packed
Idle ==
    /\ recs = <<>>
    /\ wire = <<>>
    /\ chunks = <<>>
    /\ buf = <<>>
    /\ pos = 0
    /\ msg = [Type |-> 0, BodyLen |-> 0]
    /\ critical = FALSE
    /\ data = EmptyData
    /\ data0 = data
    /\ err = "nil"
    /\ log = <<>>
    /\ sent = <<>>
    /\ conn = "nil"
    /\ proto = ""
    /\ remote = <<>>
    /\ records = <<>>
    /\ packed = <<>>
    /\ cfgWriter = 0

Init ==
    /\ Idle
    /\ config \in [NextProtos : CallerProtos]
    /\ pc = "ConnectTCP"
    /\ pc2 = "none"

\* ConnectTCP returns nil, Data{}, err
ConnectFails(e) ==
    /\ conn' = "nil"
    /\ data' = EmptyData
    /\ data0' = EmptyData
    /\ pc' = "unconnected"
    /\ err' = e
    /\ UNCHANGED <<recs, wire, chunks>>

\* ConnectTCP: set NextProtos, default the port, dial, take the defaults of
\* Data from the remote address, check the negotiated protocol.  A server
\* selects one of the offered protocols or none.
ConnectTCP ==
    /\ pc = "ConnectTCP"
    /\ config' = [config EXCEPT !.NextProtos = <<alpn>>]
    /\ cfgWriter' = 1
    /\ \E hostport \in HostPorts :
         LET sp == SplitHostPort(hostport)
             target == IF sp.err = "nil" THEN hostport
                       ELSE JoinHostPort(hostport, Itoa(DEFAULT_NTSKE_PORT))
         IN  IF sp.err \notin {"nil", "missing port in address"}
             THEN ConnectFails("split") /\ UNCHANGED <<proto, remote>>
             ELSE \E ok \in BOOLEAN :
                    IF ~ok
                    THEN ConnectFails("dial") /\ UNCHANGED <<proto, remote>>
                    ELSE \E p \in {""} \cup {config'.NextProtos[i] : i \in 1..Len(config'.NextProtos)} :
                           LET raddr == JoinHostPort(HostAddr, SplitHostPort(target).port)
                               ra == SplitHostPort(raddr)
                           IN  /\ proto' = p
                               /\ remote' = raddr
                               /\ IF ra.err # "nil" THEN ConnectFails("remoteaddr")
                                  ELSE IF AlpnMismatch(p) THEN ConnectFails("alpn")
                                  ELSE /\ conn' = "open"
                                       /\ data' = DefaultData(ra.host)
                                       /\ data0' = data'
                                       /\ pc' = "ExchangeTCP"
                                       /\ err' = "nil"
                                       /\ \E rs \in RecLists, eom \in BOOLEAN, more \in BOOLEAN :
                                            \E s \in 0..Len(Pack(rs)) + 4 :
                                              LET st == Stream(rs, eom, more, s)
                                              IN  /\ recs' = st.recs
                                                  /\ wire' = st.wire
                                                  /\ chunks' = st.chunks
    /\ UNCHANGED <<buf, pos, msg, critical, log, sent, msgVars, pc2>>

\* ExchangeTCP that goes on to Read after a failed write
ExchangeTCPIgnoreWriteErr ==
    /\ pc = "ExchangeTCP"
    /\ records' = ClientMsg
    /\ packed' = Pack(records')
    /\ sent' = packed'
    /\ \E ok \in BOOLEAN :
         IF ok THEN pc' = "hdr" /\ err' = "nil"
               ELSE pc' = "hdr" /\ err' = "write"
    /\ UNCHANGED <<recs, wire, chunks, buf, pos, msg, critical, data, data0, log>>
    /\ UNCHANGED <<connVars, concVars>>

\* ExchangeTCP up to the call of Read: build the request, Pack, conn.Write
ExchangeTCP ==
    /\ pc = "ExchangeTCP"
    /\ records' = ClientMsg
    /\ packed' = Pack(records')
    /\ sent' = packed'
    /\ \E ok \in BOOLEAN :
         IF ok THEN pc' = "hdr" /\ err' = "nil"
               ELSE pc' = "returned" /\ err' = "write"
    /\ UNCHANGED <<recs, wire, chunks, buf, pos, msg, critical, data, data0, log>>
    /\ UNCHANGED <<connVars, concVars>>

\* ReadHdr with a clean end-of-stream taken for the end of the message
ReadHdrEofIsEnd ==
    /\ pc = "hdr"
    /\ LET r == BinaryRead(buf, chunks, 4)
       IN  /\ buf' = r.buf
           /\ chunks' = r.chunks
           /\ pos' = pos + Len(r.got)
           /\ IF r.err # "nil"
              THEN /\ pc' = "returned"
                   /\ err' = IF r.err = "EOF" THEN "nil" ELSE r.err
                   /\ UNCHANGED <<msg, critical, log>>
              ELSE LET type == GetU16(SubSeq(r.got, 1, 2))
                       len  == GetU16(SubSeq(r.got, 3, 4))
                   IN  /\ critical' = hasBit(type, 15)
                       /\ msg' = [Type |-> clearBit15(type), BodyLen |-> len]
                       /\ log' = Append(log, [pos |-> pos, Type |-> clearBit15(type),
                                              Critical |-> hasBit(type, 15),
                                              BodyLen |-> len])
                       /\ pc' = "switch"
                       /\ UNCHANGED err
    /\ UNCHANGED <<recs, wire, data, data0, sent>>
    /\ UNCHANGED <<connVars, msgVars, concVars>>

\* Read: the head of the loop, binary.Read of the header and the critical bit
ReadHdr ==
    /\ pc = "hdr"
    /\ LET r == BinaryRead(buf, chunks, 4)
       IN  /\ buf' = r.buf
           /\ chunks' = r.chunks
           /\ pos' = pos + Len(r.got)
           /\ IF r.err # "nil"
              THEN /\ pc' = "returned"
                   /\ err' = r.err
                   /\ UNCHANGED <<msg, critical, log>>
              ELSE LET type == GetU16(SubSeq(r.got, 1, 2))
                       len  == GetU16(SubSeq(r.got, 3, 4))
                   IN  /\ critical' = hasBit(type, 15)
                       /\ msg' = [Type |-> clearBit15(type), BodyLen |-> len]
                       /\ log' = Append(log, [pos |-> pos, Type |-> clearBit15(type),
                                              Critical |-> hasBit(type, 15),
                                              BodyLen |-> len])
                       /\ pc' = "switch"
                       /\ UNCHANGED err
    /\ UNCHANGED <<recs, wire, data, data0, sent>>
    /\ UNCHANGED <<connVars, msgVars, concVars>>

\* CaseEom that reads the body the End header declares before it returns
CaseEomReadsBody ==
    /\ pc = "switch"
    /\ msg.Type = RecEom
    /\ LET r == BinaryRead(buf, chunks, msg.BodyLen)
       IN  /\ buf' = r.buf
           /\ chunks' = r.chunks
           /\ pos' = pos + Len(r.got)
           /\ pc' = "returned"
           /\ err' = IF r.err # "nil" THEN "buffer overrun" ELSE "nil"
    /\ UNCHANGED <<recs, wire, msg, critical, data, data0, log, sent>>
    /\ UNCHANGED <<connVars, msgVars, concVars>>

\* case RecEom: return nil
CaseEom ==
    /\ pc = "switch"
    /\ msg.Type = RecEom
    /\ pc' = "returned"
    /\ err' = "nil"
    /\ UNCHANGED <<recs, wire, chunks, buf, pos, msg, critical, data, data0, log, sent>>
    /\ UNCHANGED <<connVars, msgVars, concVars>>

\* CaseNextproto that keeps the protocol id in data.Algo
CaseNextprotoStores ==
    /\ pc = "switch"
    /\ msg.Type = RecNextproto
    /\ LET r == BinaryRead(buf, chunks, 2)
       IN  /\ buf' = r.buf
           /\ chunks' = r.chunks
           /\ pos' = pos + Len(r.got)
           /\ IF r.err # "nil"
              THEN pc' = "returned" /\ err' = "buffer overrun" /\ UNCHANGED data
              ELSE /\ pc' = "hdr"
                   /\ data' = [data EXCEPT !.Algo = GetU16(r.got)]
                   /\ UNCHANGED err
    /\ UNCHANGED <<recs, wire, msg, critical, data0, log, sent>>
    /\ UNCHANGED <<connVars, msgVars, concVars>>

\* case RecNextproto: read a uint16 and drop it
CaseNextproto ==
    /\ pc = "switch"
    /\ msg.Type = RecNextproto
    /\ LET r == BinaryRead(buf, chunks, 2)
       IN  /\ buf' = r.buf
           /\ chunks' = r.chunks
           /\ pos' = pos + Len(r.got)
           /\ IF r.err # "nil"
              THEN pc' = "returned" /\ err' = "buffer overrun"
              ELSE pc' = "hdr" /\ UNCHANGED err
    /\ UNCHANGED <<recs, wire, msg, critical, data, data0, log, sent>>
    /\ UNCHANGED <<connVars, msgVars, concVars>>

\* case RecAead: read a uint16 into data.Algo
CaseAead ==
    /\ pc = "switch"
    /\ msg.Type = RecAead
    /\ LET r == BinaryRead(buf, chunks, 2)
       IN  /\ buf' = r.buf
           /\ chunks' = r.chunks
           /\ pos' = pos + Len(r.got)
           /\ IF r.err # "nil"
              THEN pc' = "returned" /\ err' = "buffer overrun" /\ UNCHANGED data
              ELSE /\ pc' = "hdr"
                   /\ data' = [data EXCEPT !.Algo = GetU16(r.got)]
                   /\ UNCHANGED err
    /\ UNCHANGED <<recs, wire, msg, critical, data0, log, sent>>
    /\ UNCHANGED <<connVars, msgVars, concVars>>

\* case RecCookie: one reader.Read into a BodyLen buffer, append the buffer
CaseCookie ==
    /\ pc = "switch"
    /\ msg.Type = RecCookie
    /\ LET r == BufioRead(buf, chunks, msg.BodyLen)
           cookie == r.got \o Zeros(msg.BodyLen - Len(r.got))
       IN  /\ buf' = r.buf
           /\ chunks' = r.chunks
           /\ pos' = pos + Len(r.got)
           /\ IF r.err # "nil"
              THEN pc' = "returned" /\ err' = "buffer overrun" /\ UNCHANGED data
              ELSE /\ pc' = "hdr"
                   /\ data' = [data EXCEPT !.Cookie = Append(@, cookie)]
                   /\ UNCHANGED err
    /\ UNCHANGED <<recs, wire, msg, critical, data0, log, sent>>
    /\ UNCHANGED <<connVars, msgVars, concVars>>

\* CaseServer that keeps a server an earlier record has set
CaseServerKeepFirst ==
    /\ pc = "switch"
    /\ msg.Type = RecServer
    /\ LET r == BinaryRead(buf, chunks, msg.BodyLen)
       IN  /\ buf' = r.buf
           /\ chunks' = r.chunks
           /\ pos' = pos + Len(r.got)
           /\ IF r.err # "nil"
              THEN pc' = "returned" /\ err' = "buffer overrun" /\ UNCHANGED data
              ELSE /\ pc' = "hdr"
                   /\ data' = IF data.Server = data0.Server
                              THEN [data EXCEPT !.Server = r.got]
                              ELSE data
                   /\ UNCHANGED err
    /\ UNCHANGED <<recs, wire, msg, critical, data0, log, sent>>
    /\ UNCHANGED <<connVars, msgVars, concVars>>

\* case RecServer: read BodyLen bytes into data.Server
CaseServer ==
    /\ pc = "switch"
    /\ msg.Type = RecServer
    /\ LET r == BinaryRead(buf, chunks, msg.BodyLen)
       IN  /\ buf' = r.buf
           /\ chunks' = r.chunks
           /\ pos' = pos + Len(r.got)
           /\ IF r.err # "nil"
              THEN pc' = "returned" /\ err' = "buffer overrun" /\ UNCHANGED data
              ELSE /\ pc' = "hdr"
                   /\ data' = [data EXCEPT !.Server = r.got]
                   /\ UNCHANGED err
    /\ UNCHANGED <<recs, wire, msg, critical, data0, log, sent>>
    /\ UNCHANGED <<connVars, msgVars, concVars>>

\* case RecPort: read a uint16 into data.Port
CasePort ==
    /\ pc = "switch"
    /\ msg.Type = RecPort
    /\ LET r == BinaryRead(buf, chunks, 2)
       IN  /\ buf' = r.buf
           /\ chunks' = r.chunks
           /\ pos' = pos + Len(r.got)
           /\ IF r.err # "nil"
              THEN pc' = "returned" /\ err' = "buffer overrun" /\ UNCHANGED data
              ELSE /\ pc' = "hdr"
                   /\ data' = [data EXCEPT !.Port = GetU16(r.got)]
                   /\ UNCHANGED err
    /\ UNCHANGED <<recs, wire, msg, critical, data0, log, sent>>
    /\ UNCHANGED <<connVars, msgVars, concVars>>

Known == {RecEom, RecNextproto, RecAead, RecCookie, RecServer, RecPort}

\* CaseDefault with the payload swallowed before the critical bit is tested
CaseDefaultSwallowFirst ==
    /\ pc = "switch"
    /\ msg.Type \notin Known
    /\ LET r == BinaryRead(buf, chunks, msg.BodyLen)
       IN  /\ buf' = r.buf
           /\ chunks' = r.chunks
           /\ pos' = pos + Len(r.got)
           /\ IF r.err # "nil"
              THEN pc' = "returned" /\ err' = "buffer overrun"
              ELSE IF critical
              THEN pc' = "returned" /\ err' = "unknown critical"
              ELSE pc' = "hdr" /\ UNCHANGED err
    /\ UNCHANGED <<recs, wire, msg, critical, data, data0, log, sent>>
    /\ UNCHANGED <<connVars, msgVars, concVars>>

\* CaseDefault with the payload of a non-critical record left in the stream
CaseDefaultKeepPayload ==
    /\ pc = "switch"
    /\ msg.Type \notin Known
    /\ IF critical
       THEN pc' = "returned" /\ err' = "unknown critical"
       ELSE pc' = "hdr" /\ UNCHANGED err
    /\ UNCHANGED <<recs, wire, chunks, buf, pos, msg, critical, data, data0, log, sent>>
    /\ UNCHANGED <<connVars, msgVars, concVars>>

\* CaseDefault that fails on every Error and Warning record
CaseDefaultErrorFatal ==
    /\ pc = "switch"
    /\ msg.Type \notin Known
    /\ IF critical \/ msg.Type \in {RecError, RecWarning}
       THEN /\ pc' = "returned"
            /\ err' = "unknown critical"
            /\ UNCHANGED <<buf, chunks, pos>>
       ELSE LET r == BinaryRead(buf, chunks, msg.BodyLen)
            IN  /\ buf' = r.buf
                /\ chunks' = r.chunks
                /\ pos' = pos + Len(r.got)
                /\ IF r.err # "nil"
                   THEN pc' = "returned" /\ err' = "buffer overrun"
                   ELSE pc' = "hdr" /\ UNCHANGED err
    /\ UNCHANGED <<recs, wire, msg, critical, data, data0, log, sent>>
    /\ UNCHANGED <<connVars, msgVars, concVars>>

\* default: fail on the critical bit, else swallow BodyLen bytes
CaseDefault ==
    /\ pc = "switch"
    /\ msg.Type \notin Known
    /\ IF critical
       THEN /\ pc' = "returned"
            /\ err' = "unknown critical"
            /\ UNCHANGED <<buf, chunks, pos>>
       ELSE LET r == BinaryRead(buf, chunks, msg.BodyLen)
            IN  /\ buf' = r.buf
                /\ chunks' = r.chunks
                /\ pos' = pos + Len(r.got)
                /\ IF r.err # "nil"
                   THEN pc' = "returned" /\ err' = "buffer overrun"
                   ELSE pc' = "hdr" /\ UNCHANGED err
    /\ UNCHANGED <<recs, wire, msg, critical, data, data0, log, sent>>
    /\ UNCHANGED <<connVars, msgVars, concVars>>

\* cs.ExportKeyingMaterial(label, context, len): the key of a context
Key(context) ==
    [label |-> "EXPORTER-network-time-security", context |-> context, len |-> KeyLen]

s2cContext == <<0, 0, 0, 15, 1>>
c2sContext == <<0, 0, 0, 15, 0>>

\* ExportKeys that drops the error of the second export
ExportKeysDropSecondErr ==
    /\ pc = "returned"
    /\ err = "nil"
    /\ \E ok1 \in BOOLEAN, ok2 \in BOOLEAN :
         IF ~ok1
         THEN /\ data' = [data EXCEPT !.S2cKey = <<>>]
              /\ err' = "export"
         ELSE /\ data' = [data EXCEPT !.S2cKey = Key(s2cContext),
                                      !.C2sKey = IF ok2 THEN Key(c2sContext) ELSE <<>>]
              /\ err' = "nil"
    /\ pc' = "exported"
    /\ UNCHANGED <<recs, wire, chunks, buf, pos, msg, critical, data0, log, sent>>
    /\ UNCHANGED <<connVars, msgVars, concVars>>

\* ExportKeys, called once ExchangeTCP has returned nil; each export may fail
ExportKeys ==
    /\ pc = "returned"
    /\ err = "nil"
    /\ \E ok1 \in BOOLEAN, ok2 \in BOOLEAN :
         IF ~ok1
         THEN /\ data' = [data EXCEPT !.S2cKey = <<>>]
              /\ err' = "export"
         ELSE IF ~ok2
         THEN /\ data' = [data EXCEPT !.S2cKey = Key(s2cContext), !.C2sKey = <<>>]
              /\ err' = "export"
         ELSE /\ data' = [data EXCEPT !.S2cKey = Key(s2cContext),
                                      !.C2sKey = Key(c2sContext)]
              /\ err' = "nil"
    /\ pc' = "exported"
    /\ UNCHANGED <<recs, wire, chunks, buf, pos, msg, critical, data0, log, sent>>
    /\ UNCHANGED <<connVars, msgVars, concVars>>

Next ==
    \/ ConnectTCP
    \/ ExchangeTCP
    \/ ReadHdr
    \/ CaseEom
    \/ CaseNextproto
    \/ CaseAead
    \/ CaseCookie
    \/ CaseServer
    \/ CasePort
    \/ CaseDefault
    \/ ExportKeys

Spec == Init /\ [][Next]_vars

\* the message a caller builds and packs, without a connection
InitPack ==
    /\ Idle
    /\ config = [NextProtos |-> <<>>]
    /\ pc = "msg"
    /\ pc2 = "none"

\* ExchangeMsg.AddRecord: append rec to the record list
AddRecord ==
    /\ pc = "msg"
    /\ Len(records) < MaxMsg
    /\ \E rec \in EncMenu : records' = Append(records, rec)
    /\ UNCHANGED <<recs, wire, chunks, buf, pos, msg, critical, data, data0,
                   pc, err, log, sent, packed>>
    /\ UNCHANGED <<connVars, concVars>>

\* ExchangeMsg.Pack on the list built so far
PackMsg ==
    /\ pc = "msg"
    /\ packed' = Pack(records)
    /\ pc' = "packed"
    /\ UNCHANGED <<recs, wire, chunks, buf, pos, msg, critical, data, data0,
                   err, log, sent, records>>
    /\ UNCHANGED <<connVars, concVars>>

NextPack == AddRecord \/ PackMsg

SpecPack == InitPack /\ [][NextPack]_vars

\* two sessions, each with its own connection and Data, that the caller
\* handed the same *tls.Config
InitConc ==
    /\ Idle
    /\ config \in [NextProtos : CallerProtos]
    /\ pc = "ConnectTCP"
    /\ pc2 = "ConnectTCP"

\* ConnectTCP of the second session: config.NextProtos = []string{alpn}
ConnectTCP2Write ==
    /\ pc2 = "ConnectTCP"
    /\ config' = [config EXCEPT !.NextProtos = <<alpn>>]
    /\ cfgWriter' = 2
    /\ pc2' = "dial"
    /\ UNCHANGED <<recs, wire, chunks, buf, pos, msg, critical, data, data0,
                   pc, err, log, sent, conn, proto, remote, msgVars>>

\* ConnectTCP of the second session: tls.DialWithDialer reads config
ConnectTCP2Dial ==
    /\ pc2 = "dial"
    /\ \E ok \in BOOLEAN : pc2' = IF ok THEN "connected" ELSE "unconnected"
    /\ UNCHANGED <<recs, wire, chunks, buf, pos, msg, critical, data, data0,
                   pc, err, log, sent, connVars, msgVars, cfgWriter>>

NextConc == Next \/ ConnectTCP2Write \/ ConnectTCP2Dial

SpecConc == InitConc /\ [][NextConc]_vars

----------------------------------------------------------------------------
(* Vocabulary of the properties *)

\* Read has returned nil
ReadOk == (pc = "returned" /\ err = "nil") \/ pc = "exported"

\* Read has returned an error
ReadFailed ==
    pc = "returned" /\ err \in {"EOF", "ErrUnexpectedEOF", "buffer overrun", "unknown critical"}

\* the errors of a stream that ran out
Truncated == {"EOF", "ErrUnexpectedEOF", "buffer overrun"}

Last(s) == s[Len(s)]

\* the n bytes of s after its first a bytes, as far as s has them
Slice(s, a, n) == [i \in 1..(IF Len(s) - a < n THEN (IF Len(s) < a THEN 0 ELSE Len(s) - a) ELSE n) |-> s[a + i]]

RECURSIVE Flatten(_)
\* the bytes of a list of chunks
Flatten(c) == IF c = <<>> THEN <<>> ELSE Head(c) \o Flatten(Tail(c))

\* the payload the header of record i of the log declares
Payload(i) == Slice(wire, log[i].pos + 4, log[i].BodyLen)

\* record i of the log went through its case of the switch without error
Processed(i) ==
    /\ i \in 1..Len(log)
    /\ \/ i < Len(log)
       \/ pc = "hdr"
       \/ pc = "returned" /\ err \in {"EOF", "ErrUnexpectedEOF"}

\* the record variants of the encoder
Variants == {"NextProto", "End", "Server", "Port", "Cookie", "Warning", "Error", "Algorithm"}

\* the fields of Data that Read owns
Negotiated(d) == [Server |-> d.Server, Port |-> d.Port, Cookie |-> d.Cookie, Algo |-> d.Algo]

----------------------------------------------------------------------------
(* C1: Read returns nil only after it has read a header of type 0 (End), *)
(* which is then the last header it read; when Read returns without      *)
(* having read an End header it returns an error, and unless an          *)
(* unrecognized critical record stopped it, the error is one of the      *)
(* stream-ran-out errors.                                                *)
C1_EndOnlySuccess ==
    /\ ReadOk => (log # <<>> /\ Last(log).Type = RecEom)
    /\ (pc = "returned" /\ err # "write" /\ \A i \in 1..Len(log) : log[i].Type # RecEom)
         => /\ ReadFailed
            /\ (\A i \in 1..Len(log) : log[i].Type \in Known \/ ~log[i].Critical)
                 => err \in Truncated

\* records were decoded and the stream then ended at a record boundary
C1_Witness ==
    /\ pc = "returned" /\ err = "EOF"
    /\ Len(log) >= 2
    /\ \A i \in 1..Len(log) : log[i].Type # RecEom

(* C2: a step of the switch on an unrecognized type with the critical bit *)
(* set returns the unknown-critical error at once: no byte is taken from  *)
(* the reader or the transport and Data is not changed, whatever BodyLen. *)
C2_CriticalUnknownFails ==
    [][ (pc = "switch" /\ msg.Type \notin Known /\ critical)
          => /\ pc' = "returned"
             /\ err' = "unknown critical"
             /\ pos' = pos /\ buf' = buf /\ chunks' = chunks
             /\ data' = data ]_vars

\* Read failed on an unrecognized critical record that declares a payload
C2_Witness ==
    /\ pc = "returned" /\ err = "unknown critical"
    /\ Last(log).Type \notin Known /\ Last(log).Critical
    /\ Last(log).BodyLen > 0
    /\ pos = Last(log).pos + 4
    /\ Len(wire) > pos

(* C3: a step of the switch on an unrecognized type with the critical bit  *)
(* clear leaves Data unchanged and either takes exactly BodyLen bytes and  *)
(* goes back to reading a header, or fails because the stream has fewer    *)
(* than BodyLen bytes left; as long as Read has only decoded unrecognized  *)
(* non-critical records and End, Data is what it was before, so such a     *)
(* record followed by End gives success with Data unchanged.               *)
C3_NonCriticalSkipped ==
    /\ [][ (pc = "switch" /\ msg.Type \notin Known /\ ~critical)
             => /\ data' = data
                /\ \/ /\ pc' = "hdr"
                      /\ err' = err
                      /\ pos' = pos + msg.BodyLen
                      /\ buf' \o Flatten(chunks') = Suffix(wire, pos + msg.BodyLen)
                   \/ /\ pc' = "returned"
                      /\ err' = "buffer overrun"
                      /\ Len(wire) - pos < msg.BodyLen ]_vars
    /\ []( (pc # "exported" /\ \A i \in 1..Len(log) :
                                  log[i].Type = RecEom
                                  \/ (log[i].Type \notin Known /\ ~log[i].Critical))
            => data = data0 )
    /\ []( (pc = "returned" /\ Len(log) = 2
            /\ log[1].Type \notin Known /\ ~log[1].Critical
            /\ log[2].Type = RecEom /\ log[2].pos = 4 + log[1].BodyLen)
            => (err = "nil" /\ data = data0) )

\* an unrecognized non-critical record with a payload, then End: success
C3_Witness ==
    /\ pc = "returned" /\ err = "nil"
    /\ Len(log) = 2
    /\ log[1].Type \notin Known /\ ~log[1].Critical /\ log[1].BodyLen > 0
    /\ log[2].Type = RecEom
    /\ data = data0

(* C4: round trip.  The peer packs a single record of one of the eight     *)
(* variants and then End, and the whole stream arrives: Read returns nil,  *)
(* the first header it decodes has the type code and the critical bit the  *)
(* encoder wrote, and Data holds the record's Server address, Port, Cookie *)
(* bytes or algorithm list.                                                *)
C4_RoundTrip ==
    (/\ Len(recs) = 1
     /\ recs[1].kind \in Variants
     /\ wire = Pack(recs \o <<[kind |-> "End"]>>)
     /\ pc = "returned" /\ err # "write")
    => LET r == recs[1]
           h == GetU16(Prefix(pack(r), 2))
       IN  /\ err = "nil"
           /\ log[1].Type = clearBit15(h)
           /\ log[1].Critical = hasBit(h, 15)
           /\ r.kind = "Server" => data.Server = r.Addr
           /\ r.kind = "Port" => data.Port = r.Port
           /\ r.kind = "Cookie" => data.Cookie = Append(data0.Cookie, r.Cookie)
           /\ r.kind = "Algorithm" => <<data.Algo>> = r.Algo

(* C5: every non-End record that Read has processed without error took   *)
(* exactly 4 + BodyLen bytes: the next header is read at the position of *)
(* this header plus 4 plus its BodyLen.                                  *)
C5_ExactConsumption ==
    \A i \in 1..Len(log) :
        log[i].Type # RecEom =>
            /\ i < Len(log) => log[i + 1].pos = log[i].pos + 4 + log[i].BodyLen
            /\ (i = Len(log) /\ pc = "hdr") => pos = log[i].pos + 4 + log[i].BodyLen

\* the payload bytes the case of the switch for the current header asks for
Need == IF msg.Type \in {RecNextproto, RecAead, RecPort} THEN 2 ELSE msg.BodyLen

(* C6: a step of the switch that consumes a payload while the stream has *)
(* fewer bytes left than the payload needs returns a truncated-stream    *)
(* error and leaves Data unchanged.                                      *)
C6_ShortReadRejected ==
    [][ (/\ pc = "switch"
         /\ msg.Type # RecEom
         /\ msg.Type \in Known \/ ~critical
         /\ Len(wire) - pos < Need)
          => /\ pc' = "returned"
             /\ err' \in Truncated
             /\ data' = data ]_vars

RECURSIVE CookiesUpTo(_)
\* the payloads of the Cookie records among the first n of the log that
\* Read has processed, in the order of the log
CookiesUpTo(n) ==
    IF n = 0 THEN <<>>
    ELSE CookiesUpTo(n - 1) \o
         (IF log[n].Type = RecCookie /\ Processed(n) THEN <<Payload(n)>> ELSE <<>>)

(* C7: in every state the cookie sequence of Data is its initial sequence *)
(* followed by the BodyLen payload bytes of each Cookie record decoded so *)
(* far, in the order of receipt.                                          *)
C7_CookieAccumulation ==
    data.Cookie = data0.Cookie \o CookiesUpTo(Len(log))

\* the last record of type t that Read has processed, 0 when there is none
LastOf(t) ==
    LET I == {i \in 1..Len(log) : log[i].Type = t /\ Processed(i)}
    IN  IF I = {} THEN 0 ELSE CHOOSE i \in I : \A j \in I : j <= i

(* C8: last write wins.  In every state, and so when Read has returned    *)
(* nil, Data.Server is the payload of the last Server record Read has     *)
(* processed, Data.Port the uint16 after the header of the last Port      *)
(* record and Data.Algo the uint16 after the header of the last AEAD      *)
(* record; a field no record has written holds its initial value.         *)
C8_LastWriteWins ==
    /\ data.Server = IF LastOf(RecServer) = 0 THEN data0.Server
                     ELSE Payload(LastOf(RecServer))
    /\ data.Port = IF LastOf(RecPort) = 0 THEN data0.Port
                   ELSE GetU16(Slice(wire, log[LastOf(RecPort)].pos + 4, 2))
    /\ data.Algo = IF LastOf(RecAead) = 0 THEN data0.Algo
                   ELSE GetU16(Slice(wire, log[LastOf(RecAead)].pos + 4, 2))

\* Read returned nil after two Server records with different addresses
C8_Witness ==
    /\ pc = "returned" /\ err = "nil"
    /\ \E i \in 1..Len(log), j \in 1..Len(log) :
         /\ i < j
         /\ log[i].Type = RecServer /\ log[j].Type = RecServer
         /\ Payload(i) # Payload(j)
         /\ data.Server = Payload(j)

(* C9: when ExportKeys returns an error both key fields of Data are unset, *)
(* and a key field is set only when ExportKeys has returned nil.           *)
C9_NoPartialKeys ==
    /\ (pc = "exported" /\ err # "nil") => (data.S2cKey = <<>> /\ data.C2sKey = <<>>)
    /\ (data.S2cKey # <<>> \/ data.C2sKey # <<>>) => (pc = "exported" /\ err = "nil")

(* C10 as stated: when ExchangeTCP has returned nil, Data holds both keys. *)
C10_KeysAfterExchange ==
    (pc = "returned" /\ err = "nil") => (data.S2cKey # <<>> /\ data.C2sKey # <<>>)

(* C10 amended: when ExchangeTCP has returned nil, Read has read an End   *)
(* header and the two key fields are as the caller passed them; Data      *)
(* holds both keys, each the export of its own context, once the          *)
(* ExportKeys call that follows has returned nil.                         *)
C10_KeysAfterExportKeys ==
    /\ (pc = "returned" /\ err = "nil")
         => /\ Last(log).Type = RecEom
            /\ data.S2cKey = data0.S2cKey /\ data.C2sKey = data0.C2sKey
    /\ (pc = "exported" /\ err = "nil")
         => /\ data.S2cKey = Key(s2cContext)
            /\ data.C2sKey = Key(c2sContext)

\* ExportKeys has returned nil after a successful exchange
C10_Witness ==
    /\ pc = "exported" /\ err = "nil"
    /\ Last(log).Type = RecEom
    /\ data.S2cKey # <<>> /\ data.C2sKey # <<>>

(* C11: once ConnectTCP has dialled a connection whose negotiated protocol *)
(* is not "ntske/1" it has returned an error, no channel and an empty Data, *)
(* and the session goes no further; whenever a request has been handed to   *)
(* conn.Write, the channel's negotiated protocol is "ntske/1".              *)
C11_AlpnChecked ==
    /\ (pc # "ConnectTCP" /\ remote # <<>> /\ proto # "ntske/1")
         => /\ pc = "unconnected" /\ err = "alpn"
            /\ conn = "nil"
            /\ data = EmptyData
    /\ sent # <<>> => (conn = "open" /\ proto = "ntske/1")

\* a connection was dialled, the server selected no protocol, ConnectTCP failed
C11_Witness ==
    /\ pc = "unconnected" /\ err = "alpn"
    /\ remote # <<>> /\ proto = ""
    /\ sent = <<>>

(* C18: when ConnectTCP has returned nil, Data.Server is the host of the   *)
(* remote address of the connection, Data.Port is 123 and cookies,         *)
(* algorithm and keys are empty; when Read has then returned nil without   *)
(* having processed a Server record the server is still that host, and     *)
(* without a Port record the port is still 123.                            *)
C18_Defaults ==
    /\ pc = "ExchangeTCP"
         => /\ remote = HostAddr \o <<58>> \o Itoa(DEFAULT_NTSKE_PORT)
            /\ data = [C2sKey |-> <<>>, S2cKey |-> <<>>, Server |-> HostAddr,
                       Port |-> 123, Cookie |-> <<>>, Algo |-> 0]
    /\ (ReadOk /\ LastOf(RecServer) = 0) => data.Server = SplitHostPort(remote).host
    /\ (ReadOk /\ LastOf(RecPort) = 0) => data.Port = 123

\* a decode that stored a cookie, saw no Server and no Port record, and
\* returned nil
C18_Witness ==
    /\ pc = "returned" /\ err = "nil"
    /\ LastOf(RecServer) = 0 /\ LastOf(RecPort) = 0
    /\ data.Cookie # <<>>
    /\ data.Server = HostAddr /\ data.Port = 123

RECURSIVE Concat(_, _)
\* the encodings of the first n records of l, each after the ones before it
Concat(l, n) == IF n = 0 THEN <<>> ELSE Concat(l, n - 1) \o pack(l[n])

\* s is the beginning of t
IsPrefix(s, t) == Len(s) <= Len(t) /\ s = Prefix(t, Len(s))

(* C12: the buffer Pack returns is the encodings of the records in list    *)
(* order, nothing between them and nothing left out: the request of the    *)
(* client is the 16 bytes 80 01 00 02 00 00, 80 04 00 02 00 0f,            *)
(* 80 00 00 00, and those are the bytes handed to conn.Write; the bytes    *)
(* that arrive from a peer that packs its records are the beginning of the *)
(* records' encodings in list order, with or without a closing End.        *)
C12_PackInOrder ==
    /\ packed # <<>>
         => /\ packed = Concat(records, Len(records))
            /\ packed = <<128, 1, 0, 2, 0, 0, 128, 4, 0, 2, 0, 15, 128, 0, 0, 0>>
            /\ sent = packed
            /\ Last(records).kind = "End"
    /\ \/ IsPrefix(wire, Concat(recs, Len(recs)))
       \/ IsPrefix(wire, Concat(recs, Len(recs)) \o <<128, 0, 0, 0>>)

\* the request has been written and the peer's two different records and
\* End have arrived whole
C12_Witness ==
    /\ sent # <<>>
    /\ Len(recs) = 2 /\ pack(recs[1]) # pack(recs[2])
    /\ wire = pack(recs[1]) \o pack(recs[2]) \o <<128, 0, 0, 0>>

\* no byte has been read from the connection
NothingRead == pos = 0 /\ log = <<>> /\ buf = <<>> /\ Flatten(chunks) = wire

(* C16: ExchangeTCP writes, then reads, once.  Its first step hands the   *)
(* whole request to conn.Write with nothing read yet and either goes on   *)
(* to Read or, the write having failed, returns the error; a failed write *)
(* is never followed by a read; whenever Read runs or has run the whole   *)
(* request has been written; the bytes written never change again; and    *)
(* once ExchangeTCP has returned, with or without an error, nothing more  *)
(* is written or read.                                                    *)
C16_WriteThenRead ==
    /\ [][ pc = "ExchangeTCP"
             => /\ NothingRead /\ sent = <<>>
                /\ sent' = <<128, 1, 0, 2, 0, 0, 128, 4, 0, 2, 0, 15, 128, 0, 0, 0>>
                /\ NothingRead'
                /\ \/ pc' = "hdr" /\ err' = "nil"
                   \/ pc' = "returned" /\ err' = "write" ]_vars
    /\ [](err = "write" => (pc = "returned" /\ NothingRead))
    /\ []((pc \in {"hdr", "switch"} \/ ~NothingRead)
            => sent = <<128, 1, 0, 2, 0, 0, 128, 4, 0, 2, 0, 15, 128, 0, 0, 0>>)
    /\ [][ sent' # sent => pc = "ExchangeTCP" ]_vars
    /\ [][ (pc \in {"returned", "exported"})
             => (sent' = sent /\ pos' = pos /\ buf' = buf
                 /\ chunks' = chunks /\ log' = log) ]_vars

\* the write failed and ExchangeTCP returned with the stream untouched
C16_Witness ==
    /\ pc = "returned" /\ err = "write"
    /\ wire # <<>> /\ NothingRead
    /\ sent # <<>>

(* C17: no step of Read changes the two key fields of Data; the step of    *)
(* the switch for a NextProtocol record changes no field of Data, whatever *)
(* protocol id the record carries; ExportKeys changes none of server,      *)
(* port, cookies and algorithm.                                            *)
C17_FieldOwnership ==
    /\ [][ (pc \in {"hdr", "switch"})
             => (data'.S2cKey = data.S2cKey /\ data'.C2sKey = data.C2sKey) ]_vars
    /\ [][ (pc = "switch" /\ msg.Type = RecNextproto) => data' = data ]_vars
    /\ [][ (pc = "returned" /\ pc' = "exported")
             => Negotiated(data') = Negotiated(data) ]_vars
    /\ [](pc \in {"hdr", "switch", "returned"}
            => (data.S2cKey = data0.S2cKey /\ data.C2sKey = data0.C2sKey))

\* keys were exported after a decode that processed a NextProtocol record
\* with a protocol id other than 0 and stored a server
C17_Witness ==
    /\ pc = "exported" /\ err = "nil"
    /\ \E i \in 1..Len(log) :
         /\ log[i].Type = RecNextproto
         /\ GetU16(Slice(wire, log[i].pos + 4, 2)) # 0
    /\ data.Server # data0.Server
    /\ data.Algo = data0.Algo

(* C19: the step of the switch on a header of type 0 returns nil at once, *)
(* whatever the critical bit and BodyLen of the header: no byte is taken  *)
(* after the header and Data is unchanged; a header of type 0 is always   *)
(* the last header Read has read, and after it Read has returned nil with *)
(* the position 4 bytes after the start of that header.                   *)
C19_StopsAtFirstEnd ==
    /\ [][ (pc = "switch" /\ msg.Type = RecEom)
             => /\ pc' = "returned" /\ err' = "nil"
                /\ pos' = pos /\ buf' = buf /\ chunks' = chunks
                /\ data' = data /\ log' = log ]_vars
    /\ [](\A i \in 1..Len(log) :
            log[i].Type = RecEom
              => /\ i = Len(log)
                 /\ pos = log[i].pos + 4
                 /\ pc = "switch" \/ ReadOk)

\* Read returned nil on a non-critical End header that declares a body,
\* with bytes of the stream left after the header
C19_Witness ==
    /\ pc = "returned" /\ err = "nil"
    /\ Last(log).Type = RecEom /\ ~Last(log).Critical /\ Last(log).BodyLen > 0
    /\ Len(wire) > pos

(* C20: the step of the switch on a header of type 2 (Error) or 3         *)
(* (Warning) is the step for an unrecognized type: with the critical bit  *)
(* set Read returns the unknown-critical error with nothing read and Data *)
(* unchanged; with the critical bit clear Data is unchanged and Read      *)
(* either takes BodyLen bytes and goes on to the next header or fails for *)
(* lack of bytes.  No other error is ever returned for such a record.     *)
C20_ErrorWarningUnrecognized ==
    [][ (pc = "switch" /\ msg.Type \in {RecError, RecWarning})
          => /\ data' = data
             /\ IF critical
                THEN /\ pc' = "returned" /\ err' = "unknown critical"
                     /\ pos' = pos /\ buf' = buf /\ chunks' = chunks
                ELSE \/ /\ pc' = "hdr" /\ err' = err
                        /\ pos' = pos + msg.BodyLen
                     \/ /\ pc' = "returned" /\ err' = "buffer overrun"
                        /\ Len(wire) - pos < msg.BodyLen ]_vars

\* a non-critical Warning record was skipped and the session succeeded
C20_Witness ==
    /\ pc = "exported" /\ err = "nil"
    /\ \E i \in 1..Len(log) :
         log[i].Type = RecWarning /\ ~log[i].Critical /\ log[i].BodyLen > 0
    /\ Negotiated(data) = Negotiated(data0)

\* the critical bit the variant of r is encoded with
CriticalPolicy(r) ==
    CASE r.kind \in {"NextProto", "End", "Warning", "Error", "Algorithm"} -> TRUE
      [] r.kind = "Cookie" -> FALSE
      [] r.kind \in {"Server", "Port"} -> r.Critical

\* the type code of the variant of r
TypeCode(r) ==
    CASE r.kind = "End" -> 0
      [] r.kind = "NextProto" -> 1
      [] r.kind = "Error" -> 2
      [] r.kind = "Warning" -> 3
      [] r.kind = "Algorithm" -> 4
      [] r.kind = "Cookie" -> 5
      [] r.kind = "Server" -> 6
      [] r.kind = "Port" -> 7

\* the 16-bit type field of record i of the packed message
TypeField(i) == GetU16(Slice(packed, Len(Concat(records, i - 1)), 2))

(* C13: in a packed message the type field of every record has bit 15 as  *)
(* the variant's policy says (set for NextProtocol, End, Warning, Error    *)
(* and AEADAlgorithmList, clear for Cookie, the Critical flag of the       *)
(* record for Server and Port) and the variant's type code in its low 15   *)
(* bits, and the encoding of the record is the same with any other value   *)
(* in the RecordHdr it embeds.                                             *)
C13_CriticalPolicy ==
    pc = "packed"
      => \A i \in 1..Len(records) :
           /\ hasBit(TypeField(i), 15) = CriticalPolicy(records[i])
           /\ clearBit15(TypeField(i)) = TypeCode(records[i])
           /\ \A h \in {ZeroHdr, StaleHdr} :
                pack([records[i] EXCEPT !.Hdr = h]) = pack(records[i])

\* a packed message of a Cookie whose embedded header has the critical bit
\* set and a Server whose Critical flag is set
C13_Witness ==
    /\ pc = "packed"
    /\ Len(records) = 2
    /\ records[1].kind = "Cookie" /\ hasBit(records[1].Hdr.Type, 15)
    /\ records[2].kind = "Server" /\ records[2].Critical
    /\ packed = <<0, 5, 0, 2, 170, 187, 128, 6, 0, 1, 65>>

(* C14: for every record of a packed message the 16-bit body-length field *)
(* of its header is the number of payload bytes that follow the header.   *)
C14_BodyLenExact ==
    pc = "packed"
      => \A i \in 1..Len(records) :
           LET b == pack(records[i])
           IN  GetU16(Slice(b, 2, 2)) = Len(b) - 4

(* C15: sessions with their own connection and Data share nothing the    *)
(* core writes: no step of a session changes the caller's TLS            *)
(* configuration, and the configuration a session dials with is as that  *)
(* session's own ConnectTCP left it, whatever the other session did in   *)
(* between.                                                              *)
C15_NoSharedWrite ==
    /\ [][ config' = config /\ cfgWriter' = cfgWriter ]_vars
    /\ [](pc2 = "dial" => cfgWriter = 2)

====
